---- MODULE Spec2Model ----
(***************************************************************************)
(* System-Monitor: the Streamlit dashboard (src/streamlit_app.py) and the  *)
(* command-line monitor (src/system_monitor.py).                           *)
(*                                                                         *)
(* The model follows one browser session's st.session_state (the three     *)
(* history lists and the fallback byte counters), the background thread    *)
(* running update_metrics statement by statement, the script thread that   *)
(* renders the dashboard, the start of the thread by main(), and the pure  *)
(* helpers of system_monitor.py.                                           *)
(*                                                                         *)
(* Percentages are integers (the code's floats, rounded); byte counters    *)
(* are the code's integers.                                                *)
(***************************************************************************)
EXTENDS Integers, Sequences, FiniteSets, TLC

(* ------------------------------ bounds --------------------------------- *)

\* Capacity of a history list.  The code keeps 100 points
\* (streamlit_app.py:105,111,120); the model keeps fewer, so that eviction is
\* reached within a few cycles.
Capacity == 2

\* Sampler cycles a behaviour may begin.
MaxCycles == 4

\* Metric Source calls of the sampler that may fail in one behaviour.
MaxFailures == 2

\* Errors that may escape the per-series guards in one behaviour.
MaxEscapes == 1

\* Script runs of the session in the behaviours that interleave the script
\* thread with the sampler thread.
MaxRenders == 1

\* Metric Source failures in the behaviours checked together with a second
\* thread, a shutdown or fairness.
FewFailures == 1

\* Browser sessions served by the one process.
NumSessions == 4

\* Processes in an enumeration.
MaxProcs == 3

\* Fallback values drawn in one random walk.
MaxWalk == 2

\* Largest power of 1024 a byte count handed to get_size is a multiple of.
MaxPower == 6

(* ------------------------- program constants --------------------------- *)

DefaultCpu == 25
DefaultMemory == 65
CpuMaxStep == 5
MemMaxStep == 3
DefaultBytesSent == 1000000
DefaultBytesRecv == 5000000
MinSentInc == 5000
MaxSentInc == 15000
MinRecvInc == 10000
MaxRecvInc == 30000
NominalSleep == 1
BackoffSleep == 5
UnitSize == 1024

\* st.session_state holds no such key yet (st.session_state.get falls back to
\* its default).
KeyAbsent == -1

Series == {"cpu", "mem", "net"}

Sessions == 1..NumSessions

\* The session whose st.session_state and sampler thread are followed.
Focus == 1

HistoryKeys == {"cpu_history", "memory_history", "network_history"}

Families == {"system", "cpu", "memory", "disk", "network", "processes"}

VARIABLES
    cpu_history,      \* st.session_state.cpu_history
    memory_history,   \* st.session_state.memory_history
    network_history,  \* st.session_state.network_history
    last_bytes_sent,  \* st.session_state['last_bytes_sent'] or KeyAbsent
    last_bytes_recv,  \* st.session_state['last_bytes_recv'] or KeyAbsent
    pc,               \* statement the sampler thread executes next
    cpu_percent,      \* update_metrics local
    memory_percent,   \* update_metrics local: memory.percent
    net_io,           \* update_metrics local: bytes_sent, bytes_recv
    cycles,           \* cycles begun so far
    slept,            \* seconds of the last time.sleep of the sampler
    reported,         \* lines printed to stderr by the outer handler
    failures_left,    \* Metric Source failures the environment may still produce
    escapes_left,     \* escaping errors the environment may still produce
    src,              \* per series: where this cycle's value came from
    failed,           \* series whose Metric Source call failed in this cycle
    appended,         \* series appended to in this cycle
    cpu_log,          \* every value appended to cpu_history, in order
    memory_log,       \* every value appended to memory_history, in order
    network_log,      \* every value appended to network_history, in order
    rpc,              \* statement the script (render) thread executes next
    r_net,            \* safe_network_info local of the script thread
    chart,            \* the series handed to the chart drawn last
    fb_log,           \* counters returned by fallback safe_network_info calls
    renders_left,     \* script runs the environment may still request
    stop_requested,   \* process shutdown has been requested
    session_keys,     \* per browser session: keys present in st.session_state
    spc,              \* per browser session: position of its script run
    threads,          \* sessions whose script run started a sampler thread
    request,          \* the snapshot path exercised last
    down,             \* metric families whose Metric Source call fails
    snapshot,         \* per family: where the assembled snapshot's data came from
    raised,           \* the snapshot path raised to its caller
    proc_enum,        \* the process enumeration (psutil.process_iter order)
    proc_call,        \* the process-table function applied last
    proc_base,        \* the enumeration the returned table was built from
    proc_table,       \* the returned process table
    size_in,          \* the byte count handed to get_size
    size_call,        \* the formatting function applied last
    size_out,         \* what the call returned
    walk              \* fallback values drawn so far in a random walk

sessionVars == <<cpu_history, memory_history, network_history,
                 last_bytes_sent, last_bytes_recv>>
samplerVars == <<pc, cpu_percent, memory_percent, net_io, cycles, slept,
                 reported, failures_left, escapes_left, src, failed, appended,
                 cpu_log, memory_log, network_log>>
dashVars == <<rpc, r_net, chart, fb_log, renders_left, stop_requested>>
startVars == <<session_keys, spc, threads>>
snapVars == <<request, down, snapshot, raised>>
procVars == <<proc_enum, proc_call, proc_base, proc_table>>
sizeVars == <<size_in, size_call, size_out>>
\* Everything the sampler thread never touches.
envVars == <<rpc, r_net, chart, renders_left, stop_requested, startVars,
             snapVars, procVars, sizeVars, walk>>
vars == <<sessionVars, samplerVars, dashVars, startVars, snapVars, procVars,
          sizeVars, walk>>

(* ------------------------------ helpers -------------------------------- *)

Min(a, b) == IF a < b THEN a ELSE b
Max(a, b) == IF a > b THEN a ELSE b

\* The last n elements of s, oldest first.
LastN(s, n) == SubSeq(s, Len(s) - n + 1, Len(s))

\* The Metric Source (psutil) readings of the n-th cycle when the call succeeds.
HostCpu(n) == (17 * n + 3) % 101
HostMemory(n) == (11 * n + 40) % 101
HostNet(n) == [bytes_sent |-> 2000000 + 700 * n, bytes_recv |-> 9000000 + 900 * n]

\* The clamp without its lower bound.
Clamp_NoFloor(x) == Min(x, 100)

\* max(min(x, 100), 0)
Clamp(x) == Max(Min(x, 100), 0)

\* Fallback branch of safe_cpu_percent.
FallbackCpu(history, step) ==
    LET last == IF history = <<>> THEN DefaultCpu ELSE history[Len(history)]
    IN  Clamp(last + step)

\* DummyMemory.percent in the fallback branch of safe_memory_info.
FallbackMemory(history, step) ==
    LET last == IF history = <<>> THEN DefaultMemory ELSE history[Len(history)]
    IN  Clamp(last + step)

\* st.session_state.get(key, default)
SessionGet(stored, default) == IF stored = KeyAbsent THEN default ELSE stored

\* DummyNetwork.__init__ up to the counters it computes.
FallbackNet(sent, recv, i, j) ==
    [bytes_sent |-> SessionGet(sent, DefaultBytesSent) + i,
     bytes_recv |-> SessionGet(recv, DefaultBytesRecv) + j]

\* A pop() that drops the newest sample instead of the oldest.
Evicted_DropsNewest(history) ==
    IF Len(history) > Capacity THEN SubSeq(history, 1, Len(history) - 1) ELSE history

\* if len(history) > 100: history.pop(0)
Evicted(history) == IF Len(history) > Capacity THEN Tail(history) ELSE history

\* The steps random.uniform / random.randint are drawn from in the sampler.
CpuSteps == {-CpuMaxStep, CpuMaxStep}
MemSteps == {-MemMaxStep, MemMaxStep}
SentIncs == {MinSentInc, MaxSentInc}
RecvIncs == {MinRecvInc, MaxRecvInc}

NoSrc == [s \in Series |-> "none"]

(* ------------------------- update_metrics ------------------------------ *)

\* An error leaves one of the statements at lines 103, 109, 115 without being
\* absorbed by the guard around the psutil call (the except branches of safe_*
\* themselves run code, such as the reads of st.session_state, outside any
\* guard): control passes to the outer handler at line 124.
Escape ==
    /\ escapes_left > 0
    /\ escapes_left' = escapes_left - 1
    /\ pc' = "except"

\* cpu_percent = safe_cpu_percent()
CpuCall ==
    /\ pc = "cpu_call"
    /\ UNCHANGED <<envVars, fb_log>>
    /\ cycles < MaxCycles
    /\ cycles' = cycles + 1
    /\ appended' = {}
    /\ \/ /\ cpu_percent' = HostCpu(cycles')
          /\ src' = [NoSrc EXCEPT !["cpu"] = "real"]
          /\ failed' = {}
          /\ pc' = "cpu_append"
          /\ UNCHANGED <<failures_left, escapes_left>>
       \/ /\ failures_left > 0
          /\ failures_left' = failures_left - 1
          /\ \E step \in CpuSteps : cpu_percent' = FallbackCpu(cpu_history, step)
          /\ src' = [NoSrc EXCEPT !["cpu"] = "fallback"]
          /\ failed' = {"cpu"}
          /\ pc' = "cpu_append"
          /\ UNCHANGED escapes_left
       \/ /\ Escape
          /\ src' = NoSrc
          /\ failed' = {}
          /\ UNCHANGED <<cpu_percent, failures_left>>
    /\ UNCHANGED <<sessionVars, memory_percent, net_io, slept, reported,
                   cpu_log, memory_log, network_log>>

\* st.session_state.cpu_history.append(cpu_percent)
CpuAppend ==
    /\ pc = "cpu_append"
    /\ UNCHANGED <<envVars, fb_log>>
    /\ cpu_history' = Append(cpu_history, cpu_percent)
    /\ cpu_log' = Append(cpu_log, cpu_percent)
    /\ appended' = appended \cup {"cpu"}
    /\ pc' = "cpu_evict"
    /\ UNCHANGED <<memory_history, network_history, last_bytes_sent,
                   last_bytes_recv, cpu_percent, memory_percent, net_io, cycles,
                   slept, reported, failures_left, escapes_left, src, failed,
                   memory_log, network_log>>

\* if len(st.session_state.cpu_history) > 100: st.session_state.cpu_history.pop(0)
CpuEvict ==
    /\ pc = "cpu_evict"
    /\ UNCHANGED <<envVars, fb_log>>
    /\ cpu_history' = Evicted(cpu_history)
    /\ pc' = "mem_call"
    /\ UNCHANGED <<memory_history, network_history, last_bytes_sent,
                   last_bytes_recv, cpu_percent, memory_percent, net_io, cycles,
                   slept, reported, failures_left, escapes_left, src, failed,
                   appended, cpu_log, memory_log, network_log>>

\* memory = safe_memory_info()
MemCall ==
    /\ pc = "mem_call"
    /\ UNCHANGED <<envVars, fb_log>>
    /\ \/ /\ memory_percent' = HostMemory(cycles)
          /\ src' = [src EXCEPT !["mem"] = "real"]
          /\ pc' = "mem_append"
          /\ UNCHANGED <<failures_left, escapes_left, failed>>
       \/ /\ failures_left > 0
          /\ failures_left' = failures_left - 1
          /\ \E step \in MemSteps :
                memory_percent' = FallbackMemory(memory_history, step)
          /\ src' = [src EXCEPT !["mem"] = "fallback"]
          /\ failed' = failed \cup {"mem"}
          /\ pc' = "mem_append"
          /\ UNCHANGED escapes_left
       \/ /\ Escape
          /\ UNCHANGED <<memory_percent, failures_left, src, failed>>
    /\ UNCHANGED <<sessionVars, cpu_percent, net_io, cycles, slept, reported,
                   appended, cpu_log, memory_log, network_log>>

\* st.session_state.memory_history.append(memory.percent)
MemAppend ==
    /\ pc = "mem_append"
    /\ UNCHANGED <<envVars, fb_log>>
    /\ memory_history' = Append(memory_history, memory_percent)
    /\ memory_log' = Append(memory_log, memory_percent)
    /\ appended' = appended \cup {"mem"}
    /\ pc' = "mem_evict"
    /\ UNCHANGED <<cpu_history, network_history, last_bytes_sent,
                   last_bytes_recv, cpu_percent, memory_percent, net_io, cycles,
                   slept, reported, failures_left, escapes_left, src, failed,
                   cpu_log, network_log>>

\* if len(st.session_state.memory_history) > 100: ...pop(0)
MemEvict ==
    /\ pc = "mem_evict"
    /\ UNCHANGED <<envVars, fb_log>>
    /\ memory_history' = Evicted(memory_history)
    /\ pc' = "net_call"
    /\ UNCHANGED <<cpu_history, network_history, last_bytes_sent,
                   last_bytes_recv, cpu_percent, memory_percent, net_io, cycles,
                   slept, reported, failures_left, escapes_left, src, failed,
                   appended, cpu_log, memory_log, network_log>>

\* net_io = safe_network_info(): the psutil call and its guard
NetCall ==
    /\ pc = "net_call"
    /\ UNCHANGED <<envVars, fb_log>>
    /\ \/ /\ net_io' = HostNet(cycles)
          /\ src' = [src EXCEPT !["net"] = "real"]
          /\ pc' = "net_append"
          /\ UNCHANGED <<failures_left, escapes_left, failed>>
       \/ /\ failures_left > 0
          /\ failures_left' = failures_left - 1
          /\ failed' = failed \cup {"net"}
          /\ pc' = "net_fb_read"
          /\ UNCHANGED <<net_io, escapes_left, src>>
       \/ /\ Escape
          /\ UNCHANGED <<net_io, failures_left, src, failed>>
    /\ UNCHANGED <<sessionVars, cpu_percent, memory_percent, cycles, slept,
                   reported, appended, cpu_log, memory_log, network_log>>

\* DummyNetwork.__init__: read the stored counters and add the increments
NetFbRead ==
    /\ pc = "net_fb_read"
    /\ UNCHANGED <<envVars, fb_log>>
    /\ \E i \in SentIncs, j \in RecvIncs :
          net_io' = FallbackNet(last_bytes_sent, last_bytes_recv, i, j)
    /\ pc' = "net_fb_write"
    /\ UNCHANGED <<sessionVars, cpu_percent, memory_percent, cycles, slept,
                   reported, failures_left, escapes_left, src, failed, appended,
                   cpu_log, memory_log, network_log>>

\* DummyNetwork.__init__: save the counters for next time; return
NetFbWrite ==
    /\ pc = "net_fb_write"
    /\ UNCHANGED envVars
    /\ last_bytes_sent' = net_io.bytes_sent
    /\ last_bytes_recv' = net_io.bytes_recv
    /\ fb_log' = Append(fb_log, net_io)
    /\ src' = [src EXCEPT !["net"] = "fallback"]
    /\ pc' = "net_append"
    /\ UNCHANGED <<cpu_history, memory_history, network_history, cpu_percent,
                   memory_percent, net_io, cycles, slept, reported,
                   failures_left, escapes_left, failed, appended, cpu_log,
                   memory_log, network_log>>

\* st.session_state.network_history.append({...})
NetAppend ==
    /\ pc = "net_append"
    /\ UNCHANGED <<envVars, fb_log>>
    /\ network_history' = Append(network_history, net_io)
    /\ network_log' = Append(network_log, net_io)
    /\ appended' = appended \cup {"net"}
    /\ pc' = "net_evict"
    /\ UNCHANGED <<cpu_history, memory_history, last_bytes_sent,
                   last_bytes_recv, cpu_percent, memory_percent, net_io, cycles,
                   slept, reported, failures_left, escapes_left, src, failed,
                   cpu_log, memory_log>>

\* if len(st.session_state.network_history) > 100: ...pop(0)
NetEvict ==
    /\ pc = "net_evict"
    /\ UNCHANGED <<envVars, fb_log>>
    /\ network_history' = Evicted(network_history)
    /\ pc' = "sleep"
    /\ UNCHANGED <<cpu_history, memory_history, last_bytes_sent,
                   last_bytes_recv, cpu_percent, memory_percent, net_io, cycles,
                   slept, reported, failures_left, escapes_left, src, failed,
                   appended, cpu_log, memory_log, network_log>>

\* time.sleep(1), then the next iteration of while True
Sleep ==
    /\ pc = "sleep"
    /\ UNCHANGED <<envVars, fb_log>>
    /\ slept' = NominalSleep
    /\ pc' = "cpu_call"
    /\ UNCHANGED <<sessionVars, cpu_percent, memory_percent, net_io, cycles,
                   reported, failures_left, escapes_left, src, failed, appended,
                   cpu_log, memory_log, network_log>>

\* A handler that reports the error and leaves the loop.
HandleError_LeavesLoop ==
    /\ pc = "except"
    /\ UNCHANGED <<envVars, fb_log>>
    /\ reported' = reported + 1
    /\ slept' = BackoffSleep
    /\ pc' = "returned"
    /\ UNCHANGED <<sessionVars, cpu_percent, memory_percent, net_io, cycles,
                   failures_left, escapes_left, src, failed, appended,
                   cpu_log, memory_log, network_log>>

\* except Exception as e: print(...); time.sleep(5), then the next iteration
HandleError ==
    /\ pc = "except"
    /\ UNCHANGED <<envVars, fb_log>>
    /\ reported' = reported + 1
    /\ slept' = BackoffSleep
    /\ pc' = "cpu_call"
    /\ UNCHANGED <<sessionVars, cpu_percent, memory_percent, net_io, cycles,
                   failures_left, escapes_left, src, failed, appended,
                   cpu_log, memory_log, network_log>>

update_metrics ==
    \/ CpuCall \/ CpuAppend \/ CpuEvict
    \/ MemCall \/ MemAppend \/ MemEvict
    \/ NetCall \/ NetFbRead \/ NetFbWrite \/ NetAppend \/ NetEvict
    \/ Sleep \/ HandleError

(* --------------------- the script (render) thread ---------------------- *)

\* A script run of the session reaches the body of main() (line 340).
StartRender ==
    /\ rpc = "idle"
    /\ renders_left > 0
    /\ renders_left' = renders_left - 1
    /\ rpc' = "cpu_chart"
    /\ UNCHANGED <<sessionVars, samplerVars, r_net, chart, fb_log,
                   stop_requested, startVars,
                   snapVars, procVars, sizeVars, walk>>

\* create_cpu_chart(): y=st.session_state.cpu_history
create_cpu_chart ==
    /\ rpc = "cpu_chart"
    /\ chart' = [kind |-> "cpu", y |-> cpu_history]
    /\ rpc' = "memory_chart"
    /\ UNCHANGED <<sessionVars, samplerVars, r_net, fb_log, renders_left,
                   stop_requested, startVars,
                   snapVars, procVars, sizeVars, walk>>

\* create_memory_chart(): y=st.session_state.memory_history
create_memory_chart ==
    /\ rpc = "memory_chart"
    /\ chart' = [kind |-> "memory", y |-> memory_history]
    /\ rpc' = "net_info"
    /\ UNCHANGED <<sessionVars, samplerVars, r_net, fb_log, renders_left,
                   stop_requested, startVars,
                   snapVars, procVars, sizeVars, walk>>

\* safe_get_network_info(): get_network_info(), and on its failure
\* safe_network_info(), whose psutil call succeeds or fails in turn
safe_get_network_info ==
    /\ rpc = "net_info"
    /\ rpc' \in {"net_chart", "r_fb_read"}
    /\ UNCHANGED <<sessionVars, samplerVars, r_net, chart, fb_log, renders_left,
                   stop_requested, startVars,
                   snapVars, procVars, sizeVars, walk>>

\* DummyNetwork.__init__ on the script thread: read and add
RenderFbRead ==
    /\ rpc = "r_fb_read"
    /\ \E i \in SentIncs, j \in RecvIncs :
          r_net' = FallbackNet(last_bytes_sent, last_bytes_recv, i, j)
    /\ rpc' = "r_fb_write"
    /\ UNCHANGED <<sessionVars, samplerVars, chart, fb_log, renders_left,
                   stop_requested, startVars,
                   snapVars, procVars, sizeVars, walk>>

\* DummyNetwork.__init__ on the script thread: save and return
RenderFbWrite ==
    /\ rpc = "r_fb_write"
    /\ last_bytes_sent' = r_net.bytes_sent
    /\ last_bytes_recv' = r_net.bytes_recv
    /\ fb_log' = Append(fb_log, r_net)
    /\ rpc' = "net_chart"
    /\ UNCHANGED <<cpu_history, memory_history, network_history, samplerVars,
                   r_net, chart, renders_left, stop_requested, startVars, snapVars, procVars, sizeVars, walk>>

\* create_network_chart(): None for an empty history, else a frame of it
create_network_chart ==
    /\ rpc = "net_chart"
    /\ chart' = IF network_history = <<>> THEN chart
                ELSE [kind |-> "network", y |-> network_history]
    /\ rpc' = "idle"
    /\ UNCHANGED <<sessionVars, samplerVars, r_net, fb_log, renders_left,
                   stop_requested, startVars,
                   snapVars, procVars, sizeVars, walk>>

render ==
    \/ StartRender \/ create_cpu_chart \/ create_memory_chart
    \/ safe_get_network_info \/ RenderFbRead \/ RenderFbWrite
    \/ create_network_chart

(* --------------------------- process shutdown -------------------------- *)

\* The process is asked to shut down.  update_metrics holds no stop flag and
\* main() keeps no handle of the thread: the request changes nothing the
\* loop reads.
RequestStop ==
    /\ ~stop_requested
    /\ stop_requested' = TRUE
    /\ UNCHANGED <<sessionVars, samplerVars, rpc, r_net, chart, fb_log,
                   renders_left, startVars, snapVars, procVars, sizeVars, walk>>

(* ------------------- script runs and the thread start ------------------ *)

\* Lines 21-27, run at the top of every script run of session s.
ScriptTop(s) ==
    /\ spc[s] = "idle"
    /\ session_keys' = [session_keys EXCEPT ![s] = @ \cup HistoryKeys]
    /\ spc' = [spc EXCEPT ![s] = "main"]
    /\ UNCHANGED <<sessionVars, samplerVars, dashVars, threads, snapVars,
                   procVars, sizeVars, walk>>

\* main(), lines 334-338: start the background thread unless the session
\* state already holds thread_started.
StartThread(s) ==
    /\ spc[s] = "main"
    /\ spc' = [spc EXCEPT ![s] = "idle"]
    /\ IF "thread_started" \notin session_keys[s]
       THEN /\ session_keys' = [session_keys EXCEPT ![s] = @ \cup {"thread_started"}]
            /\ threads' = Append(threads, s)
            /\ pc' = IF s = Focus THEN "cpu_call" ELSE pc
       ELSE UNCHANGED <<session_keys, threads, pc>>
    /\ UNCHANGED <<sessionVars, cpu_percent, memory_percent, net_io, cycles,
                   slept, reported, failures_left, escapes_left, src, failed,
                   appended, cpu_log, memory_log, network_log, dashVars,
                   snapVars, procVars, sizeVars, walk>>

main == \E s \in Sessions : ScriptTop(s) \/ StartThread(s)

(* ----------------------------- snapshots ------------------------------- *)

JsonFamilies == Families
CsvFamilies == {"system", "cpu", "memory", "network"}

NoSnapshot == [f \in Families |-> "absent"]

\* Data gathered by get_system_info() ... get_processes() called one after the
\* other with no guard: the first failing call raises to the caller.
Gathered(families, d) ==
    IF families \cap d # {} THEN NoSnapshot
    ELSE [f \in Families |-> IF f \in families THEN "real" ELSE "absent"]

\* export_to_json(filename) with the families in d failing
export_to_json(d) ==
    /\ request' = "export_to_json"
    /\ down' = d
    /\ raised' = (JsonFamilies \cap d # {})
    /\ snapshot' = Gathered(JsonFamilies, d)
    /\ UNCHANGED <<sessionVars, samplerVars, dashVars, startVars, procVars, sizeVars, walk>>

\* export_to_csv(filename) with the families in d failing
export_to_csv(d) ==
    /\ request' = "export_to_csv"
    /\ down' = d
    /\ raised' = (CsvFamilies \cap d # {})
    /\ snapshot' = Gathered(CsvFamilies, d)
    /\ UNCHANGED <<sessionVars, samplerVars, dashVars, startVars, procVars, sizeVars, walk>>

\* safe_get_system_info() ... safe_get_processes(): each guards its own call
\* and substitutes its own stand-in.
safe_get(d) ==
    /\ request' = "safe_get"
    /\ down' = d
    /\ raised' = FALSE
    /\ snapshot' = [f \in Families |-> IF f \in d THEN "fallback" ELSE "real"]
    /\ UNCHANGED <<sessionVars, samplerVars, dashVars, startVars, procVars, sizeVars, walk>>

assemble == \E d \in SUBSET Families : export_to_json(d) \/ export_to_csv(d) \/ safe_get(d)

(* --------------------------- process table ----------------------------- *)

\* CPU shares in tenths of a percent point of the code's floats (0.1 -> 1).
ProcShares == {1, 5, 30}

Enumerations ==
    UNION {{[i \in 1..n |-> [pid |-> i, cpu_percent |-> f[i]]] :
              f \in [1..n -> ProcShares]} : n \in 0..MaxProcs}

\* The placeholder list of safe_get_processes, lines 276-282 (pid, cpu_percent).
DummyProcesses ==
    <<[pid |-> 4, cpu_percent |-> 1], [pid |-> 504, cpu_percent |-> 5],
      [pid |-> 812, cpu_percent |-> 10], [pid |-> 1012, cpu_percent |-> 40],
      [pid |-> 1230, cpu_percent |-> 30]>>

Reverse(s) == [i \in 1..Len(s) |-> s[Len(s) + 1 - i]]

\* x put into the ascending list `sorted` behind every element whose key is
\* not larger (a stable insertion).
RECURSIVE InsertAscending(_, _)
InsertAscending(sorted, x) ==
    IF sorted = <<>> THEN <<x>>
    ELSE IF x.cpu_percent < sorted[1].cpu_percent THEN <<x>> \o sorted
    ELSE <<sorted[1]>> \o InsertAscending(Tail(sorted), x)

RECURSIVE SortAscending(_)
SortAscending(s) ==
    IF s = <<>> THEN <<>>
    ELSE InsertAscending(SortAscending(SubSeq(s, 1, Len(s) - 1)), s[Len(s)])

\* sorted(processes, key=lambda p: p['cpu_percent'], reverse=True): the list
\* is reversed, sorted stably in ascending order and reversed again.
SortedReverse(s) == Reverse(SortAscending(Reverse(s)))

\* get_processes()
get_processes ==
    /\ proc_call' = "get_processes"
    /\ proc_base' = proc_enum
    /\ proc_table' = SortedReverse(proc_enum)
    /\ UNCHANGED <<sessionVars, samplerVars, dashVars, startVars, snapVars,
                   proc_enum, sizeVars, walk>>

\* safe_get_processes(): get_processes(), or the placeholder when it raises
safe_get_processes ==
    /\ proc_call' = "safe_get_processes"
    /\ \/ /\ proc_base' = proc_enum
          /\ proc_table' = SortedReverse(proc_enum)
       \/ /\ proc_base' = DummyProcesses
          /\ proc_table' = DummyProcesses
    /\ UNCHANGED <<sessionVars, samplerVars, dashVars, startVars, snapVars,
                   proc_enum, sizeVars, walk>>

(* ------------------------ fallback random walks ------------------------ *)

\* Every step random.uniform(-5, 5) / random.uniform(-3, 3) can take, rounded.
AllCpuSteps == (0 - CpuMaxStep)..CpuMaxStep
AllMemSteps == (0 - MemMaxStep)..MemMaxStep

\* The fallback branch of safe_cpu_percent is taken and the sampler records
\* its value (lines 56-59, 104-106).
cpu_fallback_step ==
    /\ walk < MaxWalk
    /\ walk' = walk + 1
    /\ \E step \in AllCpuSteps : cpu_percent' = FallbackCpu(cpu_history, step)
    /\ cpu_history' = Evicted(Append(cpu_history, cpu_percent'))
    /\ src' = [src EXCEPT !["cpu"] = "fallback"]
    /\ UNCHANGED <<memory_history, network_history, last_bytes_sent,
                   last_bytes_recv, pc, memory_percent, net_io, cycles, slept,
                   reported, failures_left, escapes_left, failed, appended,
                   cpu_log, memory_log, network_log, dashVars, startVars,
                   snapVars, procVars, sizeVars>>

\* The fallback branch of safe_memory_info is taken and the sampler records
\* its percent (lines 65-74, 110-112).
memory_fallback_step ==
    /\ walk < MaxWalk
    /\ walk' = walk + 1
    /\ \E step \in AllMemSteps :
          memory_percent' = FallbackMemory(memory_history, step)
    /\ memory_history' = Evicted(Append(memory_history, memory_percent'))
    /\ src' = [src EXCEPT !["mem"] = "fallback"]
    /\ UNCHANGED <<cpu_history, network_history, last_bytes_sent,
                   last_bytes_recv, pc, cpu_percent, net_io, cycles, slept,
                   reported, failures_left, escapes_left, failed, appended,
                   cpu_log, memory_log, network_log, dashVars, startVars,
                   snapVars, procVars, sizeVars>>

(* ------------------------------ get_size ------------------------------- *)

\* for unit in ['', 'K', 'M', 'G', 'T', 'P']
Units == <<"", "K", "M", "G", "T", "P">>

\* The number get_size holds in `bytes` is mant * 1024^exp.  The byte counts
\* considered have a mantissa below 1024^2, so that every division by 1024 is
\* exact in the code's floats and exp never falls below -1.
Zero == [mant |-> 0, exp |-> 0]

HighDigits == {0, 1, 2, 512, 1023}

Mantissas == {hi * UnitSize + lo : hi \in HighDigits, lo \in 0..(UnitSize - 1)}

ByteCounts == [mant : Mantissas, exp : 0..MaxPower]

\* bytes < 1024
Below(bytes) ==
    IF bytes.mant = 0 THEN TRUE
    ELSE IF bytes.exp >= 1 THEN FALSE
    ELSE bytes.mant < UnitSize ^ (1 - bytes.exp)

\* bytes /= 1024
Divided(bytes) == [bytes EXCEPT !.exp = @ - 1]

\* a / b rounded to the nearest integer, a tie to the even one (the rounding
\* of the format specification on a float that is exactly a / b).
RoundHalfEven(a, b) ==
    LET q == a \div b
        r == a % b
    IN  IF 2 * r < b THEN q
        ELSE IF 2 * r > b THEN q + 1
        ELSE IF q % 2 = 0 THEN q ELSE q + 1

\* The hundredths in f"{bytes:.2f}" of a number below 1024.
Hundredths(bytes) ==
    IF bytes.mant = 0 THEN 0
    ELSE IF bytes.exp >= 0 THEN 100 * bytes.mant * UnitSize ^ bytes.exp
    ELSE RoundHalfEven(100 * bytes.mant, UnitSize ^ (0 - bytes.exp))

\* f"{bytes:.2f}"
Format2f(bytes) ==
    LET h == Hundredths(bytes)
        d == h % 100
    IN  ToString(h \div 100) \o "." \o
        (IF d < 10 THEN "0" \o ToString(d) ELSE ToString(d))

\* What a call returns: a str, or None when the function body ends without a
\* return statement.
Str(s) == [type |-> "str", text |-> s]
None == [type |-> "NoneType", text |-> ""]
NotReturned == [type |-> "unset", text |-> ""]

\* The loop of get_size from its i-th unit on.
RECURSIVE get_size_loop(_, _)
get_size_loop(bytes, i) ==
    IF i > Len(Units) THEN None
    ELSE IF Below(bytes) THEN Str(Format2f(bytes) \o Units[i] \o "B")
    ELSE get_size_loop(Divided(bytes), i + 1)

get_size(bytes) == get_size_loop(bytes, 1)

\* A call get_size(n), as made by get_memory_info, get_disk_info and
\* get_network_info.
call_get_size ==
    /\ size_call' = "get_size"
    /\ size_out' = get_size(size_in)
    /\ UNCHANGED <<sessionVars, samplerVars, dashVars, startVars, snapVars,
                   procVars, size_in, walk>>

(* ---------------------------- specifications --------------------------- *)

\* Lines 22-25: the percentage histories start empty.
EmptyHistories ==
    /\ cpu_history = <<>>
    /\ memory_history = <<>>

\* The sampler thread's variables with f failures and e escapes to come;
\* `at` is "idle" before the thread exists and "cpu_call" once it runs.
SamplerInit(at, f, e) ==
    /\ network_history = <<>>
    /\ last_bytes_sent = KeyAbsent
    /\ last_bytes_recv = KeyAbsent
    /\ pc = at
    /\ cpu_percent = 0
    /\ memory_percent = 0
    /\ net_io = [bytes_sent |-> 0, bytes_recv |-> 0]
    /\ cycles = 0
    /\ slept = 0
    /\ reported = 0
    /\ failures_left = f
    /\ escapes_left = e
    /\ src = NoSrc
    /\ failed = {}
    /\ appended = {}
    /\ cpu_log = <<>>
    /\ memory_log = <<>>
    /\ network_log = <<>>

DashInit(r) ==
    /\ rpc = "idle"
    /\ r_net = [bytes_sent |-> 0, bytes_recv |-> 0]
    /\ chart = [kind |-> "none", y |-> <<>>]
    /\ fb_log = <<>>
    /\ renders_left = r
    /\ stop_requested = FALSE

\* No script has run in any session.
FreshProcess ==
    /\ session_keys = [s \in Sessions |-> {}]
    /\ spc = [s \in Sessions |-> "idle"]
    /\ threads = <<>>

\* The first script run of the followed session has started its thread.
FocusStarted ==
    /\ session_keys = [s \in Sessions |->
                         IF s = Focus THEN HistoryKeys \cup {"thread_started"} ELSE {}]
    /\ spc = [s \in Sessions |-> "idle"]
    /\ threads = <<Focus>>

SnapInit ==
    /\ request = "none"
    /\ down = {}
    /\ snapshot = NoSnapshot
    /\ raised = FALSE

ProcInit(enum) ==
    /\ proc_enum = enum
    /\ proc_call = "none"
    /\ proc_base = <<>>
    /\ proc_table = <<>>

SizeInit(n) ==
    /\ size_in = n
    /\ size_call = "none"
    /\ size_out = NotReturned

\* The sampler thread alone, the Metric Source failing at any call.
Init ==
    /\ EmptyHistories
    /\ SamplerInit("cpu_call", MaxFailures, MaxEscapes)
    /\ DashInit(0) /\ FocusStarted /\ SnapInit /\ ProcInit(<<>>)
    /\ SizeInit(Zero) /\ walk = 0

Next == update_metrics

Spec == Init /\ [][Next]_vars

LiveInit ==
    /\ EmptyHistories
    /\ SamplerInit("cpu_call", FewFailures, MaxEscapes)
    /\ DashInit(0) /\ FocusStarted /\ SnapInit /\ ProcInit(<<>>)
    /\ SizeInit(Zero) /\ walk = 0

\* The thread is scheduled as long as it has a statement to run.
LiveSpec == LiveInit /\ [][Next]_vars /\ WF_vars(update_metrics)

\* The sampler thread interleaved with script runs of its session.
DashboardInit ==
    /\ EmptyHistories
    /\ SamplerInit("cpu_call", FewFailures, MaxEscapes)
    /\ DashInit(MaxRenders) /\ FocusStarted /\ SnapInit /\ ProcInit(<<>>)
    /\ SizeInit(Zero) /\ walk = 0

DashNext == update_metrics \/ render

DashSpec == DashboardInit /\ [][DashNext]_vars

\* The sampler thread and the shutdown of the process.
ShutdownInit ==
    /\ EmptyHistories
    /\ SamplerInit("cpu_call", FewFailures, MaxEscapes)
    /\ DashInit(0) /\ FocusStarted /\ SnapInit /\ ProcInit(<<>>)
    /\ SizeInit(Zero) /\ walk = 0

ShutdownNext == update_metrics \/ RequestStop

ShutdownSpec == ShutdownInit /\ [][ShutdownNext]_vars

\* Random walks of the fallback percentages from every last history value.
SeedHistories == {<<>>} \cup {<<v>> : v \in 0..100}

\* One of the two histories ends in a value the Metric Source delivered.
WalkInit ==
    /\ \E h \in SeedHistories :
          \/ cpu_history = h /\ memory_history = <<>>
          \/ cpu_history = <<>> /\ memory_history = h
    /\ SamplerInit("idle", 0, 0)
    /\ DashInit(0) /\ FreshProcess /\ SnapInit /\ ProcInit(<<>>)
    /\ SizeInit(Zero) /\ walk = 0

WalkNext == cpu_fallback_step \/ memory_fallback_step

WalkSpec == WalkInit /\ [][WalkNext]_vars

\* Script runs of all sessions of one process.
StartInit ==
    /\ EmptyHistories
    /\ SamplerInit("idle", 0, 0)
    /\ DashInit(0) /\ FreshProcess /\ SnapInit /\ ProcInit(<<>>)
    /\ SizeInit(Zero) /\ walk = 0

StartSpec == StartInit /\ [][main]_vars

\* Snapshot assembly on the export paths and on the dashboard path.
SnapshotInit ==
    /\ EmptyHistories
    /\ SamplerInit("idle", 0, 0)
    /\ DashInit(0) /\ FreshProcess /\ SnapInit /\ ProcInit(<<>>)
    /\ SizeInit(Zero) /\ walk = 0

SnapshotSpec == SnapshotInit /\ [][assemble]_vars

\* The process-table functions applied to every enumeration.
ProcessInit ==
    /\ EmptyHistories
    /\ SamplerInit("idle", 0, 0)
    /\ DashInit(0) /\ FreshProcess /\ SnapInit
    /\ SizeInit(Zero) /\ walk = 0
    /\ \E enum \in Enumerations : ProcInit(enum)

ProcessNext == get_processes \/ safe_get_processes

ProcessSpec == ProcessInit /\ [][ProcessNext]_vars

\* get_size applied to byte counts of every magnitude.
SizeSpecInit ==
    /\ EmptyHistories
    /\ SamplerInit("idle", 0, 0)
    /\ DashInit(0) /\ FreshProcess /\ SnapInit /\ ProcInit(<<>>) /\ walk = 0
    /\ \E n \in ByteCounts : SizeInit(n)

SizeSpec == SizeSpecInit /\ [][call_get_size]_vars

(* ------------------------------- claims -------------------------------- *)

\* C1: every series a reader (create_cpu_chart, create_memory_chart,
\* create_network_chart) is handed holds at most Capacity samples: a reader
\* never sees a history to which the new sample has been appended while the
\* oldest one has not been evicted yet.
C1_ReaderNeverSeesOverfullBuffer == Len(chart.y) <= Capacity

\* C2: after k completed appends a history holds exactly the last
\* min(k, Capacity) appended values, oldest first, and an append never leaves
\* it shorter than that.
C2_HistoryHoldsLastValues ==
    /\ pc # "cpu_evict" =>
          cpu_history = LastN(cpu_log, Min(Len(cpu_log), Capacity))
    /\ pc # "mem_evict" =>
          memory_history = LastN(memory_log, Min(Len(memory_log), Capacity))
    /\ pc # "net_evict" =>
          network_history = LastN(network_log, Min(Len(network_log), Capacity))
    /\ Len(cpu_history) >= Min(Len(cpu_log), Capacity)
    /\ Len(memory_history) >= Min(Len(memory_log), Capacity)
    /\ Len(network_history) >= Min(Len(network_log), Capacity)

\* Two evictions have happened in every history.
C2_Witness ==
    /\ pc = "sleep"
    /\ Len(cpu_log) = Capacity + 2
    /\ Len(memory_log) = Capacity + 2
    /\ Len(network_log) = Capacity + 2

\* C3: over all script runs of all sessions of one process at most one
\* sampler thread is ever started.
C3_AtMostOneSamplerThread == Len(threads) <= 1

\* C4: an error that escapes the per-series guards is reported, the loop
\* sleeps 5 seconds instead of 1 and returns to its head; and every cycle the
\* loop has begun, whether it ends in the handler or not, is followed by a
\* further one.
C4_LoopSurvivesErrors ==
    /\ [][pc = "except" =>
            /\ pc' = "cpu_call"
            /\ slept' = BackoffSleep
            /\ reported' = reported + 1]_vars
    /\ (pc = "except") ~> (pc = "cpu_call")
    /\ \A n \in 0..(MaxCycles - 1) : (cycles = n) ~> (cycles = n + 1)

\* After an escaped error and the back-off a further cycle is under way.
C4_Witness ==
    /\ reported >= 1
    /\ slept = BackoffSleep
    /\ pc = "cpu_append"

\* C5: when a cycle completes, exactly the series whose Metric Source call
\* failed carry a fallback value, each of the three histories has received one
\* sample in the cycle, and the three histories are equally long.
C5_OneSamplePerSeriesPerCycle ==
    pc = "sleep" =>
        /\ \A s \in Series : src[s] = IF s \in failed THEN "fallback" ELSE "real"
        /\ appended = Series
        /\ Len(cpu_log) = Len(memory_log)
        /\ Len(memory_log) = Len(network_log)
        /\ Len(cpu_history) = Len(memory_history)
        /\ Len(memory_history) = Len(network_history)

NonDecreasing(log) ==
    \A i \in 1..Len(log) : \A j \in i..Len(log) :
        /\ log[i].bytes_sent <= log[j].bytes_sent
        /\ log[i].bytes_recv <= log[j].bytes_recv

\* C6: the byte counters of the fallback invocations of safe_network_info, in
\* the order in which the invocations store and return them, never decrease,
\* whichever thread makes them.
C6_FallbackCountersNeverDecrease == NonDecreasing(fb_log)

\* C7: every value the fallback branches of safe_cpu_percent and
\* safe_memory_info produce lies in [0, 100], whatever the last history value
\* and the step.
C7_FallbackPercentInRange ==
    /\ src["cpu"] = "fallback" => cpu_percent \in 0..100
    /\ src["mem"] = "fallback" => memory_percent \in 0..100
    /\ \A i \in 1..Len(cpu_history) : cpu_history[i] \in 0..100
    /\ \A i \in 1..Len(memory_history) : memory_history[i] \in 0..100

\* A walk that stood at the floor and stays there.
C7_Witness ==
    /\ walk = MaxWalk
    /\ src["mem"] = "fallback"
    /\ memory_percent = 0
    /\ memory_history = <<0, 0>>

\* C8: with the Metric Source failing for memory only, every snapshot path
\* returns without raising, with fallback memory fields and real CPU and
\* network fields.
C8_MemoryOnlyFailureIsAbsorbed ==
    (request # "none" /\ down = {"memory"}) =>
        /\ ~raised
        /\ snapshot["memory"] = "fallback"
        /\ snapshot["cpu"] = "real"
        /\ snapshot["network"] = "real"

Position(base, r) == CHOOSE i \in 1..Len(base) : base[i] = r

\* C9: every returned process table is in descending order of CPU share, and
\* records of equal share keep the order of the enumeration they come from.
C9_TableSortedDescendingStable ==
    proc_call # "none" =>
        \A i \in 1..Len(proc_table) : \A j \in (i + 1)..Len(proc_table) :
            /\ proc_table[i].cpu_percent >= proc_table[j].cpu_percent
            /\ proc_table[i].cpu_percent = proc_table[j].cpu_percent =>
                  Position(proc_base, proc_table[i]) < Position(proc_base, proc_table[j])

\* C10: the stop request is checked between cycles: when the loop reaches
\* the end of a cycle (its sleep, or the handler's) with a stop requested, it
\* does not go on to a further cycle.
C10_StopCheckedBetweenCycles ==
    [][(stop_requested /\ pc \in {"sleep", "except"}) => pc' # "cpu_call"]_vars

\* The smallest index k for which n / 1024^k < 1024, sought among the indices
\* 0..limit; limit + 1 when there is none.
RECURSIVE SmallestIndex(_, _, _)
SmallestIndex(n, k, limit) ==
    IF k > limit THEN k
    ELSE IF Below(n) THEN k
    ELSE SmallestIndex(Divided(n), k + 1, limit)

\* The byte count n of the examples, n < 1024^2.
IsCount(n) == size_in.exp = 0 /\ size_in.mant = n

\* C11: for every non-negative byte count n, get_size(n) returns a string:
\* n / 1024^k with two decimal places, the k-th of the suffixes "", K, M, G,
\* T, P and then B, k being the smallest index with n / 1024^k < 1024; so
\* get_size(0) = "0.00B", get_size(1024) = "1.00KB", get_size(1536) =
\* "1.50KB" and get_size(1073741824) = "1.00GB".
C11_GetSizeFormatsEveryCount ==
    size_call = "get_size" =>
        LET k == SmallestIndex(size_in, 0, MaxPower + 1)
        IN  /\ size_out.type = "str"
            /\ k + 1 \in 1..Len(Units)
            /\ size_out.text =
                  Format2f([size_in EXCEPT !.exp = @ - k]) \o Units[k + 1] \o "B"
            /\ IsCount(0) => size_out.text = "0.00B"
            /\ IsCount(1024) => size_out.text = "1.00KB"
            /\ IsCount(1536) => size_out.text = "1.50KB"
            /\ size_in = [mant |-> 1024, exp |-> 2] => size_out.text = "1.00GB"

Last(history) == history[Len(history)]

Within(a, b, d) == a - b <= d /\ b - a <= d

\* C12: a fallback value is seeded from the last value recorded for its
\* series, real or synthetic: when the sampler is about to append a fallback
\* value to a history that is not empty, the CPU value is within 5 of the last
\* cpu_history entry, the memory value within 3 of the last memory_history
\* entry, and the byte counters are greater than those of the last
\* network_history entry.
C12_FallbackSeededFromLastRecorded ==
    /\ (pc = "cpu_append" /\ src["cpu"] = "fallback" /\ cpu_history # <<>>) =>
          Within(cpu_percent, Last(cpu_history), CpuMaxStep)
    /\ (pc = "mem_append" /\ src["mem"] = "fallback" /\ memory_history # <<>>) =>
          Within(memory_percent, Last(memory_history), MemMaxStep)
    /\ (pc = "net_append" /\ src["net"] = "fallback" /\ network_history # <<>>) =>
          /\ net_io.bytes_sent > Last(network_history).bytes_sent
          /\ net_io.bytes_recv > Last(network_history).bytes_recv

\* C13: within a cycle every Metric Source call completes before the first
\* history mutation: once a history has been appended to in a cycle, the
\* values of all three series of that cycle have been obtained, and no call
\* is made after an append.
C13_CallsBeforeMutations ==
    /\ appended # {} => \A s \in Series : src[s] # "none"
    /\ pc \in {"mem_call", "net_call", "net_fb_read", "net_fb_write"} =>
          appended = {}

====
